---- MODULE Spec2Model ----
(***************************************************************************)
(* A model of the Introjucer's ProjectSaver                                *)
(* (extras/Introjucer/Source/Project Saving/jucer_ProjectSaver.h).         *)
(*                                                                         *)
(* A String is a sequence of tokens, String::empty is << >>.  A File in    *)
(* the generated-code folder is its path relative to that folder, a        *)
(* sequence of names.  The folder itself is the function fs from the paths *)
(* that exist to [dir, data].                                              *)
(***************************************************************************)
EXTENDS Integers, Sequences, FiniteSets, TLC

\* ------------------------------------------------------------------ bounds
NumExporters == 2
MaxRuns == 2
MaxEntries == 5
MaxDepth == 3

\* ------------------------------------------------------------------ names
EmptyString == << >>

TargetProjectFile == "target.jucer"
OtherProjectFile == "orig.jucer"

AppConfigFilename == "AppConfig.h"
JuceSourceHFilename == "JuceHeader.h"
BinaryDataCppName == "BinaryData.cpp"
BinaryDataHName == "BinaryData.h"
ReadmeName == "ReadMe.txt"

\* what the project's module does with the saver it is handed while it prepares
\* an exporter: nothing, or a call of one of the saver's public functions
ModuleCalls == {"none", "addFileToGeneratedGroup", "saveGeneratedFile",
                "replaceFileIfDifferent"}
\* the files a module registers with addFileToGeneratedGroup
ModuleFiles == {"appwrapper.cpp"}
\* the file a module writes with saveGeneratedFile, the file it writes with
\* replaceFileIfDifferent, and what it writes into them
ModuleWrapperName == "juce_module_wrapper.cpp"
ModuleDefsName == "plugin_defs.h"
ModuleText == <<<<"// module code">>>>
\* the sub-group a module that registers files adds as well, and the files it puts
\* there, in the order it adds them
ModuleGroupName == "AudioPlugin"
ModuleGroupFiles == <<"VST.cpp", "au.mm">>
\* a String is a tuple of tokens, and a white-space character is a token of its own:
\* the blank and the characters 9 to 13 (tab, line feed, vertical tab, form feed,
\* carriage return)
WhiteSpace == {" ", "\t", "\n", "", "\f", "\r"}

\* the content the project's modules may hand to setExtraAppConfigFileContent: a
\* line followed by blanks and a line break
ExtraContents == {<<"#define JucePlugin_Build_VST 1", " ", " ", "\r", "\n">>}

Exporters == 0 .. (NumExporters - 1)

DirNames == {".svn", ".cvs", "sub"}
PlainNames == {"CMakeLists.txt", "stale.h"}

\* the project's modules, in module order, and the flags each exposes
Modules == <<"juce_core", "juce_gui">>
ModuleIDLength == [m \in {"juce_core", "juce_gui"} |-> IF m = "juce_core" THEN 9 ELSE 8]
ModuleFlags == [m \in {"juce_core", "juce_gui"} |->
                  IF m = "juce_core" THEN <<"JUCE_FORCE_DEBUG", "JUCE_LOG_ASSERTIONS">>
                                     ELSE <<"JUCE_USE_XSHM">>]
FlagSymbols == {"JUCE_FORCE_DEBUG", "JUCE_LOG_ASSERTIONS", "JUCE_USE_XSHM"}
FlagValues == {"enabled", "disabled", "default"}

\* ------------------------------------------------------------------ state
VARIABLES
    pc,                   \* position in the saver's life: new, ready, the steps of save(), done
    run,                  \* how many ProjectSavers have been constructed on the project
    projectFileLocation,  \* project.getFile()
    oldFile,              \* save()'s local: the location before the save
    configFlags,          \* project.getConfigFlag (symbol)
    numResources,         \* ResourceFile (project).getNumFiles()
    projectTypeConfig,    \* what the modules pass to setExtraAppConfigFileContent
                          \* when they prepare an exporter
    moduleCalls,          \* what the module does with the saver, for each exporter
    writeIncludesCall,    \* what the module does with the saver in writeIncludes
    folderExists,         \* generatedCodeFolder.exists()
    fs,                   \* the generated-code folder: path -> [dir, data]
    fsBefore,             \* history: the folder when the saver was constructed
    mainDisk,             \* the file at projectFile: [exists, data]
    errors,               \* StringArray errors
    nodes,                \* the ValueTrees made by this saver: each one's children, in order
    generatedFilesGroup,  \* generatedFilesGroup.getNode(): an index into nodes
    originalGeneratedGroup, \* writeProjects' copy of the group: an index into nodes, 0 before
    extraAppConfigContent,
    appConfigFile,        \* member File appConfigFile (<< >> is File::nonexistent)
    binaryDataCpp,        \* member File binaryDataCpp
    loopPos,              \* how many iterations of writeProjects' loop have run, plus one
    outcome,              \* history: what happened to each exporter
    handed,               \* history: the group each exporter was handed
    log,                  \* history: the calls made on exporters, in order
    written,              \* history: the files physically written since construction
    ran,                  \* history: the steps of save() that did their work
    result,               \* what save() returned
    prevClean             \* history: the previous save of this project recorded no error

vars == <<pc, run, projectFileLocation, oldFile, configFlags, numResources,
          projectTypeConfig, moduleCalls, writeIncludesCall, folderExists,
          fs, fsBefore, mainDisk, errors, nodes, generatedFilesGroup,
          originalGeneratedGroup, extraAppConfigContent, appConfigFile, binaryDataCpp,
          loopPos, outcome, handed, log, written, ran, result, prevClean>>

projectVars == <<projectFileLocation, configFlags, numResources, projectTypeConfig,
                 moduleCalls, writeIncludesCall>>
diskVars == <<folderExists, fs, mainDisk>>
loopVars == <<originalGeneratedGroup, loopPos, outcome, handed, log>>

\* ------------------------------------------------------------------ files
Dir == [dir |-> TRUE, data |-> << >>]
PlainFile(d) == [dir |-> FALSE, data |-> d]

IsPrefix(q, p) == Len(q) <= Len(p) /\ \A i \in 1 .. Len(q) : q[i] = p[i]

\* the entries directly in folder parent
Children(f, parent) ==
    {p \in DOMAIN f : Len(p) = Len(parent) + 1 /\ IsPrefix(parent, p)}

\* f without the entries at or below one of roots (File::deleteRecursively on each)
RemoveAll(f, roots) ==
    LET keep == {p \in DOMAIN f : ~ \E r \in roots : IsPrefix(r, p)}
    IN [p \in keep |-> f[p]]

\* f with a plain file at path p holding d
PutFile(f, p, d) == [q \in (DOMAIN f) \cup {p} |-> IF q = p THEN PlainFile(d) ELSE f[q]]

FileExists(f, p) == p \in DOMAIN f /\ ~ f[p].dir

\* ------------------------------------------------------------------ pruning
shouldFileBeKeptAlways(filename) == TRUE

shouldFileBeKeptNoCvs(filename) == filename \in {".svn", "CMakeLists.txt"}

shouldFileBeKept(filename) == filename \in {".svn", ".cvs", "CMakeLists.txt"}

deleteNonHiddenFilesInFlat(f, parent) ==
    LET kids == Children(f, parent)
        filesToDelete == {c \in kids : ~ shouldFileBeKept(c[Len(c)])}
    IN [folderIsNowEmpty |-> kids = filesToDelete, deleted |-> filesToDelete]

\* deleteNonHiddenFilesIn (parent): folderIsNowEmpty, and the entries on which
\* deleteRecursively was called, by this call or by the calls it made.
RECURSIVE deleteNonHiddenFilesIn(_, _)
deleteNonHiddenFilesIn(f, parent) ==
    LET kids == Children(f, parent)
        folders == {c \in kids : ~ shouldFileBeKept(c[Len(c)]) /\ f[c].dir}
        sub == [c \in folders |-> deleteNonHiddenFilesIn(f, c)]
        filesToDelete == {c \in kids : /\ ~ shouldFileBeKept(c[Len(c)])
                                       /\ (c \in folders => sub[c].folderIsNowEmpty)}
    IN [folderIsNowEmpty |-> kids = filesToDelete,
        deleted |-> filesToDelete \cup UNION {sub[c].deleted : c \in folders}]

PrunedFolder(f) == RemoveAll(f, deleteNonHiddenFilesIn(f, << >>).deleted)

\* ------------------------------------------------------------------ the stable writer
FileState(f, p) ==
    IF FileExists(f, p) THEN [exists |-> TRUE, data |-> f[p].data]
                        ELSE [exists |-> FALSE, data |-> << >>]

\* FileHelpers::overwriteFileWithNewDataIfDifferent: whether it succeeded and whether
\* it wrote; canWrite is whether the file system lets the file be written.
overwriteFileWithNewDataIfDifferent(cur, newData, canWrite) ==
    IF cur.exists /\ cur.data = newData
    THEN [ok |-> TRUE, wrote |-> FALSE]
    ELSE [ok |-> canWrite, wrote |-> canWrite]

\* ------------------------------------------------------------------ the saver
\* The part of the saver and of the disk that saveGeneratedFile works on.
\* item is the Project::Item the last call returned: << >> is an invalid Item,
\* <<i>> the Item i.
Saver == [errors |-> errors, nodes |-> nodes, group |-> generatedFilesGroup,
          folderExists |-> folderExists, fs |-> fs, written |-> written,
          item |-> << >>]

Commit(s) ==
    /\ errors' = s.errors
    /\ nodes' = s.nodes
    /\ generatedFilesGroup' = s.group
    /\ folderExists' = s.folderExists
    /\ fs' = s.fs
    /\ written' = s.written

NoErrorsYetIgnored(errs) == TRUE

\* errors.size() == 0
NoErrorsYet(errs) == Len(errs) = 0

\* A Project::Item: a file, or a group with its children in order.
Leaf(file) == [name |-> file, group |-> FALSE, children |-> << >>]
Group(groupName, items) == [name |-> groupName, group |-> TRUE, children |-> items]

\* the names of a group's children, in order
ItemNames(children) == [k \in 1 .. Len(children) |-> children[k].name]

\* Project::Item::findItemForFile: looks through the group and its sub-groups
RECURSIVE findItemForFile(_, _)
findItemForFile(children, file) ==
    \E k \in 1 .. Len(children) :
      IF children[k].group THEN findItemForFile(children[k].children, file)
                           ELSE children[k].name = file

\* Project::Item::addFile (file, -1, ...): a new leaf at the end
addFile(children, file) == Append(children, Leaf(file))

addFileToGeneratedGroupAlways(children, file) == addFile(children, file)

addFileToGeneratedGroup(children, file) ==
    IF ~ findItemForFile(children, file) THEN addFile(children, file) ELSE children

AddToGroupSkipped(s, file) == s

\* addFileToGeneratedGroup (file) on the saver's current group, and the Item it
\* returns
AddToGroup(s, file) ==
    LET g == addFileToGeneratedGroup(s.nodes[s.group], file)
    IN [s EXCEPT !.nodes[s.group] = g,
                 !.item = IF findItemForFile(g, file) THEN <<Leaf(file)>> ELSE << >>]

replaceFileIfDifferentSilent(errs, name, cur, newData, canWrite) ==
    LET r == overwriteFileWithNewDataIfDifferent(cur, newData, canWrite)
    IN [ok |-> r.ok, wrote |-> r.wrote, errors |-> errs]

\* replaceFileIfDifferent (f, newData) given f's state on disk: the value returned,
\* whether the file was written, and the error list afterwards
replaceFileIfDifferent(errs, name, cur, newData, canWrite) ==
    LET r == overwriteFileWithNewDataIfDifferent(cur, newData, canWrite)
    IN IF ~ r.ok
       THEN [ok |-> FALSE, wrote |-> FALSE,
             errors |-> Append(errs, <<"Can't write to file: ", name>>)]
       ELSE [ok |-> TRUE, wrote |-> r.wrote, errors |-> errs]

\* replaceFileIfDifferent on a file of the generated-code folder: the value returned
\* and the saver and disk afterwards
ReplaceInFolder(s, name, newData, canWrite) ==
    LET r == replaceFileIfDifferent(s.errors, name, FileState(s.fs, <<name>>), newData, canWrite)
    IN [ok |-> r.ok,
        s |-> [s EXCEPT !.errors = r.errors,
                        !.fs = IF r.wrote THEN PutFile(s.fs, <<name>>, newData) ELSE s.fs,
                        !.written = IF r.wrote THEN s.written \cup {name} ELSE s.written]]

saveGeneratedFileRegistersAnyway(s, filePath, newData, canCreate, canWrite) ==
    IF ~ (s.folderExists \/ canCreate)
    THEN [s EXCEPT !.errors = Append(s.errors, <<"Couldn't create folder: ", "JuceLibraryCode">>),
                   !.item = << >>]
    ELSE LET r == ReplaceInFolder([s EXCEPT !.folderExists = TRUE], filePath, newData, canWrite)
         IN AddToGroup(r.s, filePath)

\* saveGeneratedFile: canCreate is whether generatedCodeFolder.createDirectory() can
\* make the folder when it is missing.
saveGeneratedFile(s, filePath, newData, canCreate, canWrite) ==
    IF ~ (s.folderExists \/ canCreate)
    THEN [s EXCEPT !.errors = Append(s.errors, <<"Couldn't create folder: ", "JuceLibraryCode">>),
                   !.item = << >>]
    ELSE LET r == ReplaceInFolder([s EXCEPT !.folderExists = TRUE], filePath, newData, canWrite)
         IN IF r.ok THEN AddToGroup(r.s, filePath) ELSE [r.s EXCEPT !.item = << >>]

\* ------------------------------------------------------------------ the modules
\* addFileToGeneratedGroup on each of files
RECURSIVE addFilesToGeneratedGroup(_, _)
addFilesToGeneratedGroup(children, files) ==
    IF files = {} THEN children
    ELSE LET f == CHOOSE x \in files : TRUE
         IN addFilesToGeneratedGroup(addFileToGeneratedGroup(children, f), files \ {f})

\* the sub-group of a module's own files, as the module builds it
ModuleGroup ==
    Group(ModuleGroupName, [k \in 1 .. Len(ModuleGroupFiles) |-> Leaf(ModuleGroupFiles[k])])

\* the group after the module's call, when no write fails: a module that registers
\* files adds its sub-group after them, unless the group has it already
PreparedGroup(children, call) ==
    CASE call = "addFileToGeneratedGroup" ->
           LET g == addFilesToGeneratedGroup(children, ModuleFiles)
           IN IF \E k \in 1 .. Len(g) : g[k].name = ModuleGroupName
              THEN g ELSE Append(g, ModuleGroup)
      [] call = "saveGeneratedFile" -> addFileToGeneratedGroup(children, ModuleWrapperName)
      [] OTHER -> children

\* setExtraAppConfigFileContent (content): extraAppConfigContent = content;
setExtraAppConfigFileContent(content) == content

\* what a module does when it is handed the saver: it makes its call
CallOnSaver(s, call, canWrite) ==
    CASE call = "addFileToGeneratedGroup" ->
           [s EXCEPT !.nodes[s.group] = PreparedGroup(s.nodes[s.group], call)]
      [] call = "saveGeneratedFile" ->
           saveGeneratedFile(s, ModuleWrapperName, ModuleText, canWrite, canWrite)
      [] call = "replaceFileIfDifferent" ->
           ReplaceInFolder(s, ModuleDefsName, ModuleText, canWrite).s
      [] OTHER -> s

\* modules.getUnchecked(i)->writeIncludes (*this, out), for what it does to the saver
writeIncludes(s, call, canWrite) == CallOnSaver(s, call, canWrite)

\* modules.getUnchecked(j)->prepareExporter (*exporter, *this)
prepareExporter(s, call, canWrite) == CallOnSaver(s, call, canWrite)

\* ------------------------------------------------------------------ the renderers
ProjectUID == "UID"

\* String::repeatedString (" ", n), for the widths the module IDs give
repeatedString(n) ==
    CASE n = 5 -> "     "
      [] n = 6 -> "      "
      [] OTHER -> " "

RECURSIVE MaxLength(_, _)
MaxLength(mods, k) ==
    IF k = 0 THEN 0
    ELSE LET rest == MaxLength(mods, k - 1)
             len == ModuleIDLength[mods[k]]
         IN IF len > rest THEN len ELSE rest

findLongestModuleName(mods) == MaxLength(mods, Len(mods))

FlagLineDisabledCommentedOut(symbol, value) ==
    IF value = "enabled" THEN <<"#define    ", symbol, " 1">>
    ELSE <<"//#define  ", symbol>>

\* the line writeAppConfig writes for one flag
FlagLine(symbol, value) ==
    IF value = "enabled" THEN <<"#define    ", symbol, " 1">>
    ELSE IF value = "disabled" THEN <<"#define    ", symbol, " 0">>
    ELSE <<"//#define  ", symbol>>

\* the lines writeAppConfig writes for module j
ModuleFlagLines(mods, flags, j) ==
    LET syms == ModuleFlags[mods[j]]
    IN IF Len(syms) > 0
       THEN <<<<"//====">>, <<"// ", mods[j], " flags:">>, << >>>>
            \o [i \in 1 .. Len(syms) |-> FlagLine(syms[i], flags[syms[i]])]
            \o (IF j < Len(mods) THEN << << >> >> ELSE << >>)
       ELSE << >>

RECURSIVE AllFlagLines(_, _, _)
AllFlagLines(mods, flags, j) ==
    IF j > Len(mods) THEN << >>
    ELSE ModuleFlagLines(mods, flags, j) \o AllFlagLines(mods, flags, j + 1)

\* String::trimEnd(): the string without the white space at its end
RECURSIVE trimEnd(_)
trimEnd(s) ==
    IF s # << >> /\ s[Len(s)] \in WhiteSpace THEN trimEnd(SubSeq(s, 1, Len(s) - 1)) ELSE s

writeAppConfig(mods, flags, extra) ==
    LET headerGuard == <<"__JUCE_APPCONFIG_", ProjectUID, "__">>
        longestName == findLongestModuleName(mods)
    IN <<<<"/* auto-generated: AppConfig */">>,
         <<"#ifndef ">> \o headerGuard, <<"#define ">> \o headerGuard, << >>, <<"//====">>>>
       \o [k \in 1 .. Len(mods) |->
             <<"#define JUCE_MODULE_AVAILABLE_", mods[k],
               repeatedString(longestName + 5 - ModuleIDLength[mods[k]]), " 1">>]
       \o << << >> >>
       \o AllFlagLines(mods, flags, 1)
       \o (IF extra # EmptyString THEN <<<< >>, trimEnd(extra)>> ELSE << >>)
       \o <<<< >>, <<"#endif  // ">> \o headerGuard>>

writeAppHeaderText(mods, configExists, binaryExists) ==
    LET headerGuard == <<"__APPHEADERFILE_", ProjectUID, "__">>
    IN <<<<"/* auto-generated: JuceHeader */">>,
         <<"#ifndef ">> \o headerGuard, <<"#define ">> \o headerGuard, << >>>>
       \o (IF configExists THEN <<<<"#include ", AppConfigFilename>>>> ELSE << >>)
       \o [i \in 1 .. Len(mods) |-> <<"#include ", mods[i]>>]
       \o (IF binaryExists THEN <<<<"#include ", BinaryDataHName>>>> ELSE << >>)
       \o <<<< >>, <<"namespace ProjectInfo">>, << >>, <<"#endif   // ">> \o headerGuard>>

ReadmeText == <<<<" Important Note!!">>, <<"ALL files in this folder will be DELETED">>>>

ResourceText(ext) == <<<<"BinaryData", ext>>>>

\* project.getProjectRoot().createXml(), written to a stream
ProjectXml(flags, resources) ==
    <<<<"JUCERPROJECT", ProjectUID>>,
      <<"resources", IF resources > 0 THEN "some" ELSE "none">>>>
    \o [i \in 1 .. Len(ModuleFlags["juce_core"]) |->
          <<ModuleFlags["juce_core"][i], flags[ModuleFlags["juce_core"][i]]>>]
    \o [i \in 1 .. Len(ModuleFlags["juce_gui"]) |->
          <<ModuleFlags["juce_gui"][i], flags[ModuleFlags["juce_gui"][i]]>>]

\* ------------------------------------------------------------------ sorting
\* the names a group can hold, in case-insensitive alphabetical order
NamesIgnoringCase ==
    <<"AppConfig.h", "appwrapper.cpp", "au.mm", "AudioPlugin", "BinaryData.cpp",
      "BinaryData.h", "juce_module_wrapper.cpp", "JuceHeader.h", "VST.cpp">>

Rank(name) == CHOOSE k \in 1 .. Len(NamesIgnoringCase) : NamesIgnoringCase[k] = name

RECURSIVE InsertSorted(_, _)
InsertSorted(sorted, x) ==
    IF sorted = << >> THEN <<x>>
    ELSE IF Rank(x.name) < Rank(Head(sorted).name) THEN <<x>> \o sorted
    ELSE <<Head(sorted)>> \o InsertSorted(Tail(sorted), x)

RECURSIVE SortFrom(_, _)
SortFrom(children, k) ==
    IF k = 0 THEN << >> ELSE InsertSorted(SortFrom(children, k - 1), children[k])

\* Project::Item::sortAlphabetically (true): the group's own children, by name
sortAlphabetically(children) == SortFrom(children, Len(children))

sortGroupTopLevelOnly(children) == sortAlphabetically(children)

\* sortGroupRecursively (group): the group's children sorted, then each child's
RECURSIVE sortGroupRecursively(_)
sortGroupRecursively(children) ==
    LET sorted == sortAlphabetically(children)
    IN [i \in 1 .. Len(sorted) |->
          [sorted[i] EXCEPT !.children = sortGroupRecursively(sorted[i].children)]]

\* ------------------------------------------------------------------ initial states
NoFile == [exists |-> FALSE, data |-> << >>]
StaleText == <<<<"stale">>>>

\* what an earlier save and the user's version control left in the folder
KeptEntries ==
    (<<".svn">> :> Dir) @@ (<<".svn", "entries">> :> PlainFile(StaleText))
    @@ (<<"stale.h">> :> PlainFile(StaleText))

InitialFolders ==
    {[exists |-> FALSE, fs |-> << >>],
     [exists |-> TRUE,
      fs |-> KeptEntries @@ [p \in {<<BinaryDataCppName>>, <<BinaryDataHName>>}
                              |-> PlainFile(StaleText)]]}

\* the project's flags: one enabled, one left alone, one disabled
InitialFlags ==
    {[f \in FlagSymbols |-> IF f = "JUCE_FORCE_DEBUG" THEN "enabled"
                            ELSE IF f = "JUCE_USE_XSHM" THEN "disabled" ELSE "default"]}

\* the project's module makes one kind of call, and makes it at none of the places
\* where it is handed the saver (writeIncludes, prepareExporter for each exporter),
\* at one of them or at every one
ModulePlans ==
    {plan \in [writeIncludes : ModuleCalls, prepareExporter : [Exporters -> ModuleCalls]] :
       LET calls == {plan.writeIncludes} \cup {plan.prepareExporter[e] : e \in Exporters}
           places == Cardinality({e \in Exporters : plan.prepareExporter[e] # "none"})
                       + (IF plan.writeIncludes # "none" THEN 1 ELSE 0)
       IN /\ Cardinality(calls \ {"none"}) <= 1
          /\ places \in {0, 1, NumExporters + 1}}

NotHanded == [given |-> FALSE, node |-> 0, children |-> << >>, added |-> {}, wrote |-> {},
              failed |-> FALSE]

\* the state of a saver that has not been constructed yet
NoSaver ==
    /\ pc = "new"
    /\ run = 0
    /\ errors = << >>
    /\ nodes = << << >> >>
    /\ generatedFilesGroup = 1
    /\ originalGeneratedGroup = 0
    /\ extraAppConfigContent = EmptyString
    /\ appConfigFile = << >>
    /\ binaryDataCpp = << >>
    /\ loopPos = 1
    /\ outcome = [e \in Exporters |-> "pending"]
    /\ handed = [e \in Exporters |-> NotHanded]
    /\ log = << >>
    /\ written = {}
    /\ ran = {}
    /\ result = EmptyString
    /\ prevClean = FALSE

Init ==
    /\ NoSaver
    /\ projectFileLocation \in {OtherProjectFile, TargetProjectFile}
    /\ oldFile = projectFileLocation
    /\ mainDisk = IF projectFileLocation = TargetProjectFile
                  THEN [exists |-> TRUE, data |-> StaleText] ELSE NoFile
    /\ configFlags \in InitialFlags
    /\ numResources \in {0, 1}
    /\ projectTypeConfig \in {EmptyString} \cup ExtraContents
    /\ \E plan \in ModulePlans :
         moduleCalls = plan.prepareExporter /\ writeIncludesCall = plan.writeIncludes
    /\ \E d \in InitialFolders : folderExists = d.exists /\ fs = d.fs
    /\ fsBefore = fs

\* ------------------------------------------------------------------ construction
\* ProjectSaver::ProjectSaver: a fresh group, and the folder pruned if it exists
Construct ==
    /\ pc \in {"new", "done"}
    /\ run < MaxRuns
    /\ run' = run + 1
    /\ prevClean' = (pc = "done" /\ errors = << >>)
    /\ pc' = "ready"
    /\ errors' = << >>
    /\ nodes' = << << >> >>
    /\ generatedFilesGroup' = 1
    /\ originalGeneratedGroup' = 0
    /\ extraAppConfigContent' = EmptyString
    /\ appConfigFile' = << >>
    /\ binaryDataCpp' = << >>
    /\ loopPos' = 1
    /\ outcome' = [e \in Exporters |-> "pending"]
    /\ handed' = [e \in Exporters |-> NotHanded]
    /\ log' = << >>
    /\ written' = {}
    /\ ran' = {}
    /\ result' = EmptyString
    /\ fsBefore' = fs
    /\ fs' = IF folderExists THEN PrunedFolder(fs) ELSE fs
    /\ UNCHANGED <<projectVars, oldFile, folderExists, mainDisk>>

\* ------------------------------------------------------------------ save()
\* save(), up to and including writeMainProjectFile()
SaveStart ==
    /\ pc = "ready"
    /\ \E canWrite \in BOOLEAN :
         LET xml == ProjectXml(configFlags, numResources)
             r == replaceFileIfDifferent(errors, TargetProjectFile, mainDisk, xml, canWrite)
         IN /\ errors' = r.errors
            /\ mainDisk' = IF r.wrote THEN [exists |-> TRUE, data |-> xml] ELSE mainDisk
            /\ written' = IF r.wrote THEN written \cup {TargetProjectFile} ELSE written
    /\ oldFile' = projectFileLocation
    /\ projectFileLocation' = TargetProjectFile
    /\ ran' = ran \cup {"mainProjectFile"}
    /\ pc' = "appConfig1"
    /\ UNCHANGED <<run, configFlags, numResources, projectTypeConfig, moduleCalls,
                   writeIncludesCall,
                   folderExists, fs,
                   fsBefore,
                   nodes, generatedFilesGroup, extraAppConfigContent, appConfigFile,
                   binaryDataCpp, loopVars, result, prevClean>>

\* writeAppConfigFile (modules)
writeAppConfigFile(s, flags, extra, canCreate, canWrite) ==
    saveGeneratedFile(s, AppConfigFilename, writeAppConfig(Modules, flags, extra),
                      canCreate, canWrite)

\* if (errors.size() == 0) writeAppConfigFile (modules);  at either place in save()
AppConfigStep(here, next) ==
    /\ pc = here
    /\ IF NoErrorsYet(errors)
       THEN /\ \E canCreate \in BOOLEAN, canWrite \in BOOLEAN :
                 Commit(writeAppConfigFile(Saver, configFlags, extraAppConfigContent,
                                           canCreate, canWrite))
            /\ appConfigFile' = <<AppConfigFilename>>
            /\ ran' = ran \cup {here}
       ELSE UNCHANGED <<errors, nodes, generatedFilesGroup, folderExists, fs, written,
                        appConfigFile, ran>>
    /\ pc' = next
    /\ UNCHANGED <<run, projectVars, oldFile, fsBefore, mainDisk,
                   extraAppConfigContent, binaryDataCpp, loopVars, result, prevClean>>

WriteAppConfigFirst == AppConfigStep("appConfig1", "binaryData")

\* the pair as resourceFile.write leaves it, registered in the group
WriteResourcePair(s) ==
    [s EXCEPT
       !.fs = PutFile(PutFile(s.fs, <<BinaryDataCppName>>, ResourceText("cpp")),
                      <<BinaryDataHName>>, ResourceText("h")),
       !.written = s.written \cup {BinaryDataCppName, BinaryDataHName},
       !.nodes[s.group] = addFile(addFile(s.nodes[s.group], BinaryDataCppName),
                                  BinaryDataHName)]

writeBinaryDataFilesAlways(s, numFiles, canWrite) ==
    IF numFiles >= 0
    THEN IF canWrite
         THEN WriteResourcePair(s)
         ELSE [s EXCEPT !.errors = Append(s.errors, <<"Can't create binary resources file: ",
                                                      BinaryDataCppName>>)]
    ELSE [s EXCEPT !.fs = RemoveAll(s.fs, {<<BinaryDataCppName>>, <<BinaryDataHName>>})]

\* writeBinaryDataFiles(): canWrite is whether resourceFile.write succeeds
writeBinaryDataFiles(s, numFiles, canWrite) ==
    IF numFiles > 0
    THEN IF canWrite
         THEN WriteResourcePair(s)
         ELSE [s EXCEPT !.errors = Append(s.errors, <<"Can't create binary resources file: ",
                                                      BinaryDataCppName>>)]
    ELSE [s EXCEPT !.fs = RemoveAll(s.fs, {<<BinaryDataCppName>>, <<BinaryDataHName>>})]

\* if (errors.size() == 0) writeBinaryDataFiles();
WriteBinaryData ==
    /\ pc = "binaryData"
    /\ IF NoErrorsYet(errors)
       THEN /\ \E canWrite \in BOOLEAN :
                 Commit(writeBinaryDataFiles(Saver, numResources, canWrite))
            /\ binaryDataCpp' = <<BinaryDataCppName>>
            /\ ran' = ran \cup {"binaryData"}
       ELSE UNCHANGED <<errors, nodes, generatedFilesGroup, folderExists, fs, written,
                        binaryDataCpp, ran>>
    /\ pc' = "appHeader"
    /\ UNCHANGED <<run, projectVars, oldFile, fsBefore, mainDisk,
                   extraAppConfigContent, appConfigFile, loopVars, result, prevClean>>

writeAppHeaderFromEarlierRun(s, config, binary, call, canWriteModule, canCreate, canWrite) ==
    LET m == writeIncludes(s, call, canWriteModule)
    IN saveGeneratedFile(m, JuceSourceHFilename,
                         writeAppHeaderText(Modules,
                                            config # << >> /\ FileExists(s.fs, config),
                                            <<BinaryDataHName>> \in DOMAIN fsBefore),
                         canCreate, canWrite)

\* writeAppHeader (modules): the text is rendered, every module's writeIncludes is
\* handed the saver on the way, and then the file is saved whatever the modules did
writeAppHeader(s, config, binary, call, canWriteModule, canCreate, canWrite) ==
    LET m == writeIncludes(s, call, canWriteModule)
    IN saveGeneratedFile(m, JuceSourceHFilename,
                         writeAppHeaderText(Modules,
                                            config # << >> /\ FileExists(s.fs, config),
                                            binary # << >> /\ FileExists(m.fs, binary)),
                         canCreate, canWrite)

\* if (errors.size() == 0) writeAppHeader (modules);  canWriteModule is whether the
\* disk takes what a module writes, canWrite whether it takes the header
WriteAppHeader ==
    /\ pc = "appHeader"
    /\ IF NoErrorsYet(errors)
       THEN /\ \E canWriteModule \in BOOLEAN, canCreate \in BOOLEAN, canWrite \in BOOLEAN :
                 Commit(writeAppHeader(Saver, appConfigFile, binaryDataCpp, writeIncludesCall,
                                       canWriteModule, canCreate, canWrite))
            /\ extraAppConfigContent' = setExtraAppConfigFileContent(projectTypeConfig)
            /\ ran' = ran \cup {"appHeader"}
       ELSE UNCHANGED <<errors, nodes, generatedFilesGroup, folderExists, fs, written, ran,
                        extraAppConfigContent>>
    /\ pc' = "projects"
    /\ UNCHANGED <<run, projectVars, oldFile, fsBefore, mainDisk,
                   appConfigFile, binaryDataCpp, loopVars, result, prevClean>>

\* ------------------------------------------------------------------ writeProjects
\* exporter->getTargetFolder().getFullPathName()
TargetFolderName(i) ==
    CASE i = 0 -> "Builds/0"
      [] i = 1 -> "Builds/1"
      [] i = 2 -> "Builds/2"
      [] i = 3 -> "Builds/3"
      [] OTHER -> "Builds/n"

\* the message of the SaveError exporter i raises
SaveErrorMessage(i) == <<"Can't write to the project file in: ", TargetFolderName(i)>>

ExporterAtForward(pos) == pos - 1

\* for (int i = project.getNumExporters(); --i >= 0;): the index of iteration pos
ExporterAt(pos) == NumExporters - pos

NextLoopPosStopOnError(pos, failed) == IF failed THEN NumExporters + 1 ELSE pos + 1

\* the loop goes on to the next exporter whatever happened to this one
NextLoopPos(pos, failed) == pos + 1

ResetGeneratedGroupKeep(trees, group, original) == [nodes |-> trees, group |-> group]

\* generatedFilesGroup.getNode() = originalGeneratedGroup.createCopy();
ResetGeneratedGroup(trees, group, original) ==
    [nodes |-> Append(trees, trees[original]), group |-> Len(trees) + 1]

\* the files the module's call has put into the group
AddedBy(s, call) ==
    CASE call = "addFileToGeneratedGroup" -> ModuleFiles
      [] call = "saveGeneratedFile" /\ s.item # << >> -> {ModuleWrapperName}
      [] OTHER -> {}

\* if (errors.size() == 0) writeProjects (modules);  up to the loop
WriteProjectsEnter ==
    /\ pc = "projects"
    /\ IF NoErrorsYet(errors)
       THEN /\ nodes' = Append(nodes, nodes[generatedFilesGroup])
            /\ originalGeneratedGroup' = Len(nodes) + 1
            /\ ran' = ran \cup {"projects"}
            /\ pc' = IF NumExporters > 0 THEN "exporters" ELSE "appConfig2"
       ELSE /\ UNCHANGED <<nodes, originalGeneratedGroup, ran>>
            /\ pc' = "appConfig2"
    /\ UNCHANGED <<run, projectVars, oldFile, diskVars, fsBefore, errors, generatedFilesGroup,
                   extraAppConfigContent, appConfigFile, binaryDataCpp, loopPos, outcome,
                   handed, log, written, result, prevClean>>

\* one iteration of writeProjects' loop; canCreate is whether
\* exporter->getTargetFolder().createDirectory() succeeds, canWrite whether the disk
\* takes what the module writes, throws whether exporter->create() raises a SaveError
ExporterIteration ==
    /\ pc = "exporters"
    /\ loopPos <= NumExporters
    /\ LET i == ExporterAt(loopPos) IN
       \E canCreate \in BOOLEAN, canWrite \in BOOLEAN, throws \in BOOLEAN :
         /\ IF canCreate
            THEN LET h == ResetGeneratedGroup(nodes, generatedFilesGroup, originalGeneratedGroup)
                     p == prepareExporter([Saver EXCEPT !.nodes = h.nodes, !.group = h.group],
                                          moduleCalls[i], canWrite)
                     sorted == sortGroupRecursively(p.nodes[p.group])
                 IN /\ Commit([p EXCEPT !.nodes[p.group] = sorted,
                                        !.errors = IF throws
                                                   THEN Append(p.errors, SaveErrorMessage(i))
                                                   ELSE p.errors])
                    /\ extraAppConfigContent' = setExtraAppConfigFileContent(projectTypeConfig)
                    /\ handed' = [handed EXCEPT ![i] = [given |-> TRUE, node |-> p.group,
                                                        children |-> sorted,
                                                        added |-> AddedBy(p, moduleCalls[i]),
                                                        wrote |-> p.written \ written,
                                                        failed |-> p.errors # errors]]
                    /\ log' = log \o <<<<"createDirectory", i>>, <<"prepareExporter", i>>,
                                       <<"create", i>>>>
                    /\ outcome' = [outcome EXCEPT ![i] = IF throws THEN "threw" ELSE "created"]
            ELSE /\ canWrite /\ ~ throws
                 /\ errors' = Append(errors, <<"Can't create folder: ", TargetFolderName(i)>>)
                 /\ outcome' = [outcome EXCEPT ![i] = "nofolder"]
                 /\ log' = log \o <<<<"createDirectory", i>>>>
                 /\ UNCHANGED <<nodes, generatedFilesGroup, extraAppConfigContent, handed,
                                folderExists, fs, written>>
         /\ loopPos' = NextLoopPos(loopPos, Len(errors') > Len(errors))
    /\ pc' = IF loopPos' > NumExporters THEN "appConfig2" ELSE "exporters"
    /\ UNCHANGED <<run, projectVars, oldFile, fsBefore, mainDisk,
                   originalGeneratedGroup, appConfigFile, binaryDataCpp, ran, result,
                   prevClean>>

WriteAppConfigAgainSkipped ==
    /\ pc = "appConfig2"
    /\ pc' = "readme"
    /\ UNCHANGED <<run, projectVars, oldFile, diskVars, fsBefore, errors, nodes,
                   generatedFilesGroup, extraAppConfigContent, appConfigFile,
                   binaryDataCpp, loopVars, written, ran, result, prevClean>>

\* if (errors.size() == 0) writeAppConfigFile (modules);  the repeat after the exporters
WriteAppConfigAgain == AppConfigStep("appConfig2", "readme")

\* if (generatedCodeFolder.exists() && errors.size() == 0) writeReadmeFile();
WriteReadme ==
    /\ pc = "readme"
    /\ IF folderExists /\ NoErrorsYet(errors)
       THEN /\ \E canWrite \in BOOLEAN :
                 Commit(ReplaceInFolder(Saver, ReadmeName, ReadmeText, canWrite).s)
            /\ ran' = ran \cup {"readme"}
       ELSE UNCHANGED <<errors, nodes, generatedFilesGroup, folderExists, fs, written, ran>>
    /\ pc' = "finish"
    /\ UNCHANGED <<run, projectVars, oldFile, fsBefore, mainDisk,
                   extraAppConfigContent, appConfigFile, binaryDataCpp, loopVars, result,
                   prevClean>>

FileAfterSaveNeverRestored(errs, old, current) == current

\* if (errors.size() > 0) project.setFile (oldFile);
FileAfterSave(errs, old, current) == IF Len(errs) > 0 THEN old ELSE current

ReturnLastError(errs) == IF Len(errs) = 0 THEN EmptyString ELSE errs[Len(errs)]

\* return errors[0];  StringArray's operator[] gives the empty string past the end
ReturnValue(errs) == IF Len(errs) = 0 THEN EmptyString ELSE errs[1]

\* the end of save()
SaveFinish ==
    /\ pc = "finish"
    /\ projectFileLocation' = FileAfterSave(errors, oldFile, projectFileLocation)
    /\ result' = ReturnValue(errors)
    /\ pc' = "done"
    /\ UNCHANGED <<run, oldFile, configFlags, numResources, projectTypeConfig, moduleCalls,
                   writeIncludesCall,
                   diskVars, fsBefore, errors, nodes,
                   generatedFilesGroup, extraAppConfigContent, appConfigFile, binaryDataCpp,
                   loopVars, written, ran, prevClean>>

Next ==
    \/ Construct
    \/ SaveStart
    \/ WriteAppConfigFirst
    \/ WriteBinaryData
    \/ WriteAppHeader
    \/ WriteProjectsEnter
    \/ ExporterIteration
    \/ WriteAppConfigAgain
    \/ WriteReadme
    \/ SaveFinish

Spec == Init /\ [][Next]_vars

\* ------------------------------------------------------------------ pruning alone
\* The folder a saver is constructed on, built up entry by entry beforehand.
InitPrune ==
    /\ NoSaver
    /\ projectFileLocation = TargetProjectFile
    /\ oldFile = projectFileLocation
    /\ mainDisk = NoFile
    /\ configFlags = [f \in FlagSymbols |-> "default"]
    /\ numResources = 0
    /\ projectTypeConfig = EmptyString
    /\ moduleCalls = [e \in Exporters |-> "none"]
    /\ writeIncludesCall = "none"
    /\ folderExists = TRUE
    /\ fs = << >>
    /\ fsBefore = fs

\* before the saver exists, somebody puts an entry into the generated-code folder
AddEntry ==
    /\ pc = "new"
    /\ run = 0
    /\ Cardinality(DOMAIN fs) < MaxEntries
    /\ \E parent \in {<< >>} \cup {p \in DOMAIN fs : fs[p].dir},
          name \in DirNames \cup PlainNames :
         /\ Len(parent) < MaxDepth
         /\ Append(parent, name) \notin DOMAIN fs
         /\ fs' = (Append(parent, name) :> (IF name \in DirNames THEN Dir
                                            ELSE PlainFile(StaleText))) @@ fs
    /\ fsBefore' = fs'
    /\ UNCHANGED <<pc, run, projectVars, oldFile, folderExists, mainDisk, errors,
                   nodes, generatedFilesGroup, extraAppConfigContent, appConfigFile,
                   binaryDataCpp, loopVars, written, ran, result, prevClean>>

NextPrune ==
    \/ AddEntry
    \/ Construct

SpecPrune == InitPrune /\ [][NextPrune]_vars

\* ------------------------------------------------------------------ rendering alone
\* A project with any setting of its flags, saved up to the first emission of the
\* configuration header.
InitRender ==
    /\ NoSaver
    /\ projectFileLocation = TargetProjectFile
    /\ oldFile = projectFileLocation
    /\ mainDisk = NoFile
    /\ configFlags \in [FlagSymbols -> FlagValues]
    /\ numResources = 0
    /\ projectTypeConfig = EmptyString
    /\ moduleCalls = [e \in Exporters |-> "none"]
    /\ writeIncludesCall = "none"
    /\ folderExists = FALSE
    /\ fs = << >>
    /\ fsBefore = fs

NextRender ==
    \/ Construct
    \/ SaveStart
    \/ WriteAppConfigFirst

SpecRender == InitRender /\ [][NextRender]_vars

\* ================================================================== properties
Count(seq, x) == Cardinality({k \in 1 .. Len(seq) : seq[k] = x})

Members(seq) == {seq[k] : k \in 1 .. Len(seq)}

NoDuplicates(seq) == Cardinality(Members(seq)) = Len(seq)

FailedExporters == {e \in Exporters : outcome[e] \in {"nofolder", "threw"}}

\* the errors a module's failed write leaves
ModuleErrors == {<<"Can't write to file: ", ModuleWrapperName>>,
                 <<"Can't write to file: ", ModuleDefsName>>}

\* the exporters whose preparation left the error of a module's failed write
FailedModuleWrites ==
    {e \in Exporters : handed[e].given /\ moduleCalls[e] \in {"saveGeneratedFile",
                                                               "replaceFileIfDifferent"}
                          /\ handed[e].failed}

\* ------------------------------------------------------------------ C1
\* C1: once writeProjects' loop is entered, every exporter is processed: one whose
\* target folder can be created has create() called exactly once, one whose folder
\* cannot be created is skipped and leaves exactly one error naming its folder, one
\* whose create() raises leaves exactly one error, and the loop adds one error per
\* failing exporter and, besides these, only one error for each write of a module
\* that failed while an exporter was prepared.
C1_ExporterFailureIsolated ==
    "projects" \in ran =>
      /\ \A e \in Exporters :
           /\ outcome[e] \in {"created", "threw"} => Count(log, <<"create", e>>) = 1
           /\ outcome[e] = "nofolder" =>
                /\ Count(log, <<"create", e>>) = 0
                /\ Count(errors, <<"Can't create folder: ", TargetFolderName(e)>>) = 1
           /\ outcome[e] = "threw" => Count(errors, SaveErrorMessage(e)) = 1
           /\ outcome[e] \in {"created", "pending"} =>
                /\ Count(errors, SaveErrorMessage(e)) = 0
                /\ Count(errors, <<"Can't create folder: ", TargetFolderName(e)>>) = 0
      /\ pc \in {"exporters", "appConfig2"} =>
           /\ Len(errors) = Cardinality(FailedExporters) + Cardinality(FailedModuleWrites)
           /\ Cardinality({k \in 1 .. Len(errors) : errors[k] \in ModuleErrors})
                = Cardinality(FailedModuleWrites)
      /\ pc # "exporters" => \A e \in Exporters : outcome[e] # "pending"

C1_Witness ==
    /\ pc = "appConfig2"
    /\ NumExporters >= 2
    /\ outcome[NumExporters - 1] = "nofolder"
    /\ outcome[0] = "threw"
    /\ Count(log, <<"create", 0>>) = 1
    /\ Len(errors) = 2

\* ------------------------------------------------------------------ C2
\* C2 as stated: when save() has returned, the project's file is the one before the
\* save if an error was recorded, and is the target file if and only if none was.
C2_Original ==
    pc = "done" =>
      /\ errors # << >> => projectFileLocation = oldFile
      /\ projectFileLocation = TargetProjectFile <=> errors = << >>

\* C2, amended: when save() has returned, the project's file is the one before the
\* save if an error was recorded and the target file if none was (the two can be the
\* same file, so the target file does not show that no error was recorded unless the
\* project was somewhere else before); every file written during the save is still
\* on disk.
C2_Rollback ==
    pc = "done" =>
      /\ errors # << >> => projectFileLocation = oldFile
      /\ errors = << >> => projectFileLocation = TargetProjectFile
      /\ oldFile # TargetProjectFile =>
           (projectFileLocation = TargetProjectFile <=> errors = << >>)
      /\ \A n \in written :
           IF n = TargetProjectFile THEN mainDisk.exists ELSE FileExists(fs, <<n>>)

C2_Witness ==
    /\ pc = "done"
    /\ errors # << >>
    /\ oldFile = OtherProjectFile
    /\ projectFileLocation = OtherProjectFile
    /\ AppConfigFilename \in written

\* ------------------------------------------------------------------ C3
\* C3: save() returns the empty string exactly when no error was recorded, and the
\* first error recorded otherwise.
C3_ReturnsFirstError ==
    pc = "done" =>
      /\ result = EmptyString <=> errors = << >>
      /\ errors # << >> => result = errors[1]

C3_Witness ==
    /\ pc = "done"
    /\ Len(errors) >= 2
    /\ errors[1] # errors[Len(errors)]
    /\ result = errors[1]

\* ------------------------------------------------------------------ C4
\* C4: the group handed to an exporter holds exactly the files of the copy taken
\* before the loop and the files registered while that exporter was prepared, so
\* nothing another exporter's preparation added; and the tree handed to an exporter
\* stays as it was handed over when the group is reset for the next one.
C4_ExporterIsolation ==
    \A e \in Exporters :
      handed[e].given =>
        /\ Members(ItemNames(handed[e].children))
             = Members(ItemNames(nodes[originalGeneratedGroup])) \cup handed[e].added
                 \cup (IF moduleCalls[e] = "addFileToGeneratedGroup"
                       THEN {ModuleGroupName} ELSE {})
        /\ nodes[handed[e].node] = handed[e].children
        /\ \A d \in Exporters \ {e} : handed[d].given => handed[d].node # handed[e].node

C4_Witness ==
    /\ NumExporters >= 2
    /\ handed[NumExporters - 1].given
    /\ handed[NumExporters - 1].added # {}
    /\ handed[NumExporters - 2].given
    /\ handed[NumExporters - 2].added = {}

\* ------------------------------------------------------------------ C5
\* a save of a project that was saved before, both saves without an error
SecondCleanSave == run >= 2 /\ prevClean /\ pc = "done" /\ errors = << >>

GeneratedTextFiles == {AppConfigFilename, JuceSourceHFilename, ReadmeName}

\* C5 as stated: a second save of the unchanged project, with no failure in either,
\* writes no file.
C5_Original == SecondCleanSave => written = {}

\* C5, amended: in a second save of the unchanged project, with no failure in
\* either, only the main project file is found identical and left alone; the
\* constructor has emptied the generated-code folder, so the configuration header,
\* the umbrella header and the README are each written again, with the content
\* they had.
C5_SecondSaveRewritesFolder ==
    SecondCleanSave =>
      /\ TargetProjectFile \notin written
      /\ GeneratedTextFiles \subseteq written
      /\ \A n \in GeneratedTextFiles : FileExists(fs, <<n>>) /\ <<n>> \in DOMAIN fsBefore
      /\ fs[<<JuceSourceHFilename>>] = fsBefore[<<JuceSourceHFilename>>]
      /\ fs[<<ReadmeName>>] = fsBefore[<<ReadmeName>>]
      /\ fs[<<AppConfigFilename>>] = fsBefore[<<AppConfigFilename>>]

C5_Witness ==
    /\ SecondCleanSave
    /\ numResources > 0
    /\ BinaryDataCppName \in written

\* ------------------------------------------------------------------ C6
\* the only error recorded is the one writeBinaryDataFiles records
ResourceWriteFailed ==
    /\ errors # << >>
    /\ errors[1] = <<"Can't create binary resources file: ", BinaryDataCppName>>

\* C6 as stated: after the resource pair failed to be written the save goes on, the
\* umbrella header is written and every exporter is processed.
C6_Original ==
    (pc = "done" /\ ResourceWriteFailed) =>
      /\ Len(errors) = 1
      /\ "appHeader" \in ran
      /\ \A e \in Exporters : outcome[e] # "pending"

\* C6, amended: after the resource pair failed to be written exactly one error is
\* recorded and none of the later generation steps does anything: no umbrella
\* header, no exporter, no second configuration header, no README; save() still
\* runs to its end, restores the project's file and returns that error.
C6_ResourceFailureSkipsTheRest ==
    /\ ResourceWriteFailed =>
         /\ Len(errors) = 1
         /\ ran \cap {"appHeader", "projects", "appConfig2", "readme"} = {}
         /\ log = << >>
         /\ \A e \in Exporters : outcome[e] = "pending"
         /\ JuceSourceHFilename \notin written /\ ReadmeName \notin written
         /\ pc = "done" => result = errors[1] /\ projectFileLocation = oldFile
    /\ (ResourceWriteFailed /\ pc # "done") => ENABLED Next

C6_Witness == pc = "done" /\ ResourceWriteFailed /\ "appConfig1" \in ran

\* ------------------------------------------------------------------ C7
\* Along log the exporter never changes back: with the calls of one exporter next
\* to each other, "everything done with i comes before anything done with j" for
\* every i < j is an index that never falls, and for every i > j one that never
\* rises.
NeverFalls == \A k \in 1 .. Len(log) - 1 : log[k][2] <= log[k + 1][2]
NeverRises == \A k \in 1 .. Len(log) - 1 : log[k][2] >= log[k + 1][2]

\* each exporter's calls come in the order createDirectory, prepareExporter, create
CallsInOrder ==
    \A k \in 1 .. Len(log) :
      IF k > 1 /\ log[k - 1][2] = log[k][2]
      THEN <<log[k - 1][1], log[k][1]>> \in {<<"createDirectory", "prepareExporter">>,
                                             <<"prepareExporter", "create">>}
      ELSE log[k][1] = "createDirectory"

\* C7 as stated: for exporters i < j of the project's list, everything done with i
\* comes before anything done with j.
C7_Original == NeverFalls

\* C7, amended: the exporters are processed strictly one after another, from the
\* last of the project's list to the first: for i < j, everything done with j comes
\* before anything done with i.
C7_ReverseDeclaredOrder ==
    /\ NeverRises
    /\ CallsInOrder
    /\ ("projects" \in ran /\ pc = "appConfig2") =>
         {log[k][2] : k \in 1 .. Len(log)} = Exporters

C7_Witness ==
    /\ pc = "appConfig2"
    /\ \A e \in Exporters : outcome[e] = "created"
    /\ log[1] = <<"createDirectory", NumExporters - 1>>

\* ------------------------------------------------------------------ C8
GroupNames == {AppConfigFilename, JuceSourceHFilename, BinaryDataCppName, BinaryDataHName,
               ModuleWrapperName} \cup ModuleFiles

\* the positions of save() at which the group can be one it was not before
GroupMayBeNew == pc \in {"appConfig1", "binaryData", "appHeader", "projects", "exporters",
                         "appConfig2"}

\* C8: no tree of the saver ever holds two Items for one file; whatever the group has
\* come to hold, registering a file it holds leaves the group as it is, registering
\* one it does not hold appends one Item, and registering it again changes nothing
\* more.
C8_RegistrationIdempotent ==
    /\ \A n \in 1 .. Len(nodes) : NoDuplicates(ItemNames(nodes[n]))
    /\ GroupMayBeNew => \A f \in GroupNames :
         LET g == nodes[generatedFilesGroup]
             once == addFileToGeneratedGroup(g, f)
         IN /\ f \in Members(ItemNames(g)) => once = g
            /\ f \notin Members(ItemNames(g)) => once = Append(g, Leaf(f))
            /\ addFileToGeneratedGroup(once, f) = once

C8_Witness ==
    /\ pc = "readme"
    /\ "appConfig1" \in ran
    /\ "appConfig2" \in ran
    /\ errors = << >>
    /\ Count(ItemNames(nodes[generatedFilesGroup]), AppConfigFilename) = 1

\* ------------------------------------------------------------------ C9
KeepNames == {".svn", ".cvs", "CMakeLists.txt"}

HasKeptName(p) == \E k \in 1 .. Len(p) : p[k] \in KeepNames

\* C9: after construction on an existing folder, every entry named .svn, .cvs or
\* CMakeLists.txt, everything below such an entry and every folder above one is
\* still there as it was, and no other plain file directly in the folder is left.
C9_PruningKeepsKeepList ==
    (pc = "ready" /\ folderExists) =>
      /\ \A p \in DOMAIN fsBefore :
           HasKeptName(p) =>
             \A q \in DOMAIN fsBefore :
               (IsPrefix(q, p) \/ IsPrefix(p, q)) => (q \in DOMAIN fs /\ fs[q] = fsBefore[q])
      /\ \A p \in DOMAIN fsBefore :
           (Len(p) = 1 /\ ~ fsBefore[p].dir /\ ~ HasKeptName(p)) => p \notin DOMAIN fs
      /\ DOMAIN fs \subseteq DOMAIN fsBefore

C9_Witness ==
    /\ pc = "ready"
    /\ <<"stale.h">> \in DOMAIN fsBefore
    /\ <<"stale.h">> \notin DOMAIN fs
    /\ <<".svn", "stale.h">> \in DOMAIN fs
    /\ <<"sub", ".cvs">> \in DOMAIN fs

\* ------------------------------------------------------------------ C10
\* C10: when save() has returned for a project without binary resources, the
\* generated-code folder holds neither BinaryData.cpp nor BinaryData.h, whatever
\* it held before, and no tree of the saver holds an Item for either.
C10_NoResourcePairLeft ==
    (pc = "done" /\ numResources = 0) =>
      /\ <<BinaryDataCppName>> \notin DOMAIN fs
      /\ <<BinaryDataHName>> \notin DOMAIN fs
      /\ \A n \in 1 .. Len(nodes) :
           Members(ItemNames(nodes[n])) \cap {BinaryDataCppName, BinaryDataHName} = {}

C10_Witness ==
    /\ pc = "done"
    /\ numResources = 0
    /\ <<BinaryDataCppName>> \in DOMAIN fsBefore
    /\ <<BinaryDataHName>> \in DOMAIN fsBefore
    /\ "binaryData" \in ran
    /\ errors = << >>

\* ------------------------------------------------------------------ C11
\* C11 as stated: every file written since the saver was constructed has exactly
\* one Item in the generated-file group.
C11_Original == \A n \in written : Count(ItemNames(nodes[generatedFilesGroup]), n) = 1

\* the files save() writes with replaceFileIfDifferent alone
UnregisteredFiles == {TargetProjectFile, ReadmeName}

\* the files a module writes through the saver it is handed
ModuleWrittenFiles == {ModuleWrapperName, ModuleDefsName}

\* C11, amended: every file save()'s own steps have written since the saver was
\* constructed, other than the main project file and the README, has exactly one
\* Item in the generated-file group; a file a module wrote with saveGeneratedFile
\* while an exporter was prepared has exactly one Item in the group handed to that
\* exporter, and one it wrote so in writeIncludes has exactly one Item in the
\* group from then on; the main project file and the README are written but never have an
\* Item in any tree of the saver.
C11_WrittenFilesRegistered ==
    /\ \A n \in written \ (UnregisteredFiles \cup ModuleWrittenFiles) :
         Count(ItemNames(nodes[generatedFilesGroup]), n) = 1
    /\ \A e \in Exporters :
         (handed[e].given /\ ModuleWrapperName \in handed[e].wrote) =>
           Count(ItemNames(handed[e].children), ModuleWrapperName) = 1
    /\ (writeIncludesCall = "saveGeneratedFile" /\ ModuleWrapperName \in written) =>
         Count(ItemNames(nodes[generatedFilesGroup]), ModuleWrapperName) = 1
    /\ \A k \in 1 .. Len(nodes) : Members(ItemNames(nodes[k])) \cap UnregisteredFiles = {}

C11_Witness ==
    /\ pc = "done"
    /\ errors = << >>
    /\ {TargetProjectFile, ReadmeName, AppConfigFilename, JuceSourceHFilename,
        BinaryDataCppName, BinaryDataHName, ModuleWrapperName} \subseteq written
    /\ "appConfig2" \in ran
    /\ \E e \in Exporters : handed[e].given /\ ModuleWrapperName \in handed[e].wrote

\* ------------------------------------------------------------------ C12
\* what a save without an error leaves in the group before the exporters
GeneratedGroupOf(resources, call) ==
    Append(PreparedGroup(<<Leaf(AppConfigFilename)>>
                           \o (IF resources > 0
                               THEN <<Leaf(BinaryDataCppName), Leaf(BinaryDataHName)>>
                               ELSE << >>),
                         call),
           Leaf(JuceSourceHFilename))

\* the extra content the modules leave for the second emission
ExtraContentOf(content) == setExtraAppConfigFileContent(content)

\* C12: what a save without an error produces is a function of the project alone:
\* the configuration header on disk is the rendering of the modules, the flags and
\* the extra content the modules set, the umbrella header is the rendering of the
\* modules and of whether the project has resources, and the tree handed to an
\* exporter is the sorted group of the generated files and of what the module's
\* call for that exporter registers, whatever the folder held before and however
\* many saves came before; so the second of two such saves leaves the whole
\* generated-code folder as the first left it.
C12_Deterministic ==
    /\ (pc = "done" /\ errors = << >>) =>
         /\ fs[<<AppConfigFilename>>]
              = PlainFile(writeAppConfig(Modules, configFlags, ExtraContentOf(projectTypeConfig)))
         /\ fs[<<JuceSourceHFilename>>]
              = PlainFile(writeAppHeaderText(Modules, TRUE, numResources > 0))
         /\ \A e \in Exporters :
              /\ handed[e].given
              /\ handed[e].children
                   = sortGroupRecursively(PreparedGroup(GeneratedGroupOf(numResources,
                                                                         writeIncludesCall),
                                                        moduleCalls[e]))
    /\ SecondCleanSave => fs = fsBefore

C12_Witness ==
    /\ SecondCleanSave
    /\ projectTypeConfig # EmptyString
    /\ numResources > 0
    /\ \E e \in Exporters : handed[e].added # {}
    /\ \E e \in Exporters : handed[e].added = {}
    /\ fs[<<AppConfigFilename>>] = fsBefore[<<AppConfigFilename>>]

\* ------------------------------------------------------------------ C13
\* the module lists the configuration header is rendered for
ModuleLists ==
    {<< >>, <<"juce_core">>, <<"juce_gui">>,
     <<"juce_core", "juce_gui">>, <<"juce_gui", "juce_core">>}

\* the flags of the modules from the j-th on, in module order then flag order
RECURSIVE FlagsInOrder(_, _)
FlagsInOrder(mods, j) ==
    IF j > Len(mods) THEN << >> ELSE ModuleFlags[mods[j]] \o FlagsInOrder(mods, j + 1)

IsFlagLine(line) == Len(line) >= 2 /\ line[1] \in {"#define    ", "//#define  "}

FlagLinesOf(text) == SelectSeq(text, IsFlagLine)

Mentions(line, symbol) == \E t \in 1 .. Len(line) : line[t] = symbol

\* the flag lines of text are those of the flags of mods under the setting flags
FlagLinesAre(text, mods, flags) ==
    LET lines == FlagLinesOf(text)
        syms == FlagsInOrder(mods, 1)
    IN /\ Len(lines) = Len(syms)
       /\ \A k \in 1 .. Len(syms) :
            lines[k] = CASE flags[syms[k]] = "enabled" -> <<"#define    ", syms[k], " 1">>
                         [] flags[syms[k]] = "disabled" -> <<"#define    ", syms[k], " 0">>
                         [] OTHER -> <<"//#define  ", syms[k]>>
       /\ \A k \in 1 .. Len(syms) :
            Cardinality({n \in 1 .. Len(text) : Mentions(text[n], syms[k])}) = 1

\* C13: for every list of modules and every setting of the flags, the rendered
\* configuration header has exactly one line per flag of each module: a define to 1
\* for an enabled flag, a define to 0 for a disabled one, a commented-out define for
\* one left unset, in module order and within a module in the order the module
\* declares its flags; and the header save() writes to disk is such a rendering.
C13_FlagLines ==
    /\ \A mods \in ModuleLists :
         FlagLinesAre(writeAppConfig(mods, configFlags, extraAppConfigContent),
                      mods, configFlags)
    /\ AppConfigFilename \in written =>
         FlagLinesAre(fs[<<AppConfigFilename>>].data, Modules, configFlags)

C13_Witness ==
    /\ AppConfigFilename \in written
    /\ configFlags["JUCE_FORCE_DEBUG"] = "enabled"
    /\ configFlags["JUCE_LOG_ASSERTIONS"] = "default"
    /\ configFlags["JUCE_USE_XSHM"] = "disabled"
    /\ FlagLinesOf(fs[<<AppConfigFilename>>].data)
         = <<<<"#define    ", "JUCE_FORCE_DEBUG", " 1">>,
             <<"//#define  ", "JUCE_LOG_ASSERTIONS">>,
             <<"#define    ", "JUCE_USE_XSHM", " 0">>>>

\* ------------------------------------------------------------------ C14
\* the steps of save() after writeMainProjectFile, named by where they begin
GatedSteps == {"appConfig1", "binaryData", "appHeader", "projects", "appConfig2", "readme"}

\* a step from a state where a gated step begins
GatedStep ==
    pc \in GatedSteps =>
      IF errors = << >> /\ (pc = "readme" => folderExists)
      THEN pc \in ran'
      ELSE /\ <<errors, fs, folderExists, mainDisk, written>>'
                = <<errors, fs, folderExists, mainDisk, written>>
           /\ <<nodes, generatedFilesGroup, log, outcome, handed, ran>>'
                = <<nodes, generatedFilesGroup, log, outcome, handed, ran>>

\* C14: a step of save() that begins with an empty error list does its work (the
\* README only if the generated-code folder exists as well), and a step that begins
\* after an error was recorded does nothing: it writes no file, records no error,
\* touches no tree and calls no exporter.
C14_StepsGated == [][GatedStep]_vars

C14_Witness ==
    /\ pc = "done"
    /\ Len(errors) = 1
    /\ "appHeader" \in ran
    /\ "projects" \notin ran
    /\ "appConfig2" \notin ran
    /\ "readme" \notin ran
    /\ log = << >>
    /\ ReadmeName \notin written

\* ------------------------------------------------------------------ C15
\* a folder of the folder as it was whose name is not on the keep-list
PlainFolder(p) == p \in DOMAIN fsBefore /\ fsBefore[p].dir /\ p[Len(p)] \notin KeepNames

\* some entry below p, at any depth, has a name of the keep-list
SubtreeHasKept(p) ==
    \E q \in DOMAIN fsBefore : Len(q) > Len(p) /\ IsPrefix(p, q) /\ q[Len(q)] \in KeepNames

\* the entries directly in p that are neither on the keep-list nor above an entry
\* that is
Deletable(p) ==
    {c \in Children(fsBefore, p) : c[Len(c)] \notin KeepNames /\ ~ SubtreeHasKept(c)}

\* the folders deleteNonHiddenFilesIn is called on: the generated-code folder and
\* the folders below it that are not at or below an entry of the keep-list
Visited == {<< >>} \cup {p \in DOMAIN fsBefore : fsBefore[p].dir /\ ~ HasKeptName(p)}

\* C15 as stated: every sub-folder whose name is not on the keep-list is removed
\* exactly if nothing below it is on the keep-list, every sub-folder that is left
\* has lost the entries that are neither on the keep-list nor above an entry that
\* is, and the call returns true exactly if the folder is left without entries.
C15_Original ==
    (pc = "ready" /\ folderExists) =>
      /\ \A p \in DOMAIN fsBefore :
           PlainFolder(p) => (p \notin DOMAIN fs <=> ~ SubtreeHasKept(p))
      /\ \A p \in DOMAIN fs : fs[p].dir => Deletable(p) \cap DOMAIN fs = {}
      /\ \A p \in Visited :
           deleteNonHiddenFilesIn(fsBefore, p).folderIsNowEmpty <=> Children(fs, p) = {}

\* C15, amended: the pruning does not go into a folder of the keep-list, so what is
\* stated holds of the folders that are not at or below an entry of the keep-list:
\* such a sub-folder is removed exactly if nothing below it is on the keep-list; one
\* that is left has lost the entries that are neither on the keep-list nor above an
\* entry that is; and the call on such a folder returns true exactly if the folder
\* is left without entries.  A sub-folder at or below an entry of the keep-list is
\* left with all it held.
C15_PostOrderPruning ==
    (pc = "ready" /\ folderExists) =>
      /\ \A p \in Visited \ {<< >>} : p \notin DOMAIN fs <=> ~ SubtreeHasKept(p)
      /\ \A p \in Visited :
           /\ Deletable(p) \cap DOMAIN fs = {}
           /\ (p = << >> \/ p \in DOMAIN fs) =>
                Children(fs, p) = Children(fsBefore, p) \ Deletable(p)
           /\ deleteNonHiddenFilesIn(fsBefore, p).folderIsNowEmpty <=> Children(fs, p) = {}
      /\ \A p \in DOMAIN fsBefore :
           (fsBefore[p].dir /\ HasKeptName(p)) =>
             (p \in DOMAIN fs /\ Children(fs, p) = Children(fsBefore, p))

C15_Witness ==
    /\ pc = "ready"
    /\ <<"sub", ".cvs">> \in DOMAIN fs
    /\ <<"sub", "stale.h">> \in DOMAIN fsBefore
    /\ <<"sub", "stale.h">> \notin DOMAIN fs
    /\ <<"sub", "sub">> \in DOMAIN fsBefore
    /\ <<"sub", "sub">> \notin DOMAIN fs
    /\ ~ deleteNonHiddenFilesIn(fsBefore, <<"sub">>).folderIsNowEmpty
    /\ deleteNonHiddenFilesIn(fsBefore, <<"sub", "sub">>).folderIsNowEmpty

\* ------------------------------------------------------------------ C16
\* the children are in case-insensitive alphabetical order by name, files and
\* sub-groups alike, and so are the children of every sub-group
RECURSIVE SortedRecursively(_)
SortedRecursively(children) ==
    /\ \A k \in 1 .. Len(children) - 1 :
         Rank(children[k].name) < Rank(children[k + 1].name)
    /\ \A k \in 1 .. Len(children) : SortedRecursively(children[k].children)

\* the items below children, at any depth, as paths of names
RECURSIVE ItemPaths(_)
ItemPaths(children) ==
    UNION {{<<children[k].name>>}
             \cup {<<children[k].name>> \o q : q \in ItemPaths(children[k].children)} :
           k \in 1 .. Len(children)}

\* C16: when create() has just been called on an exporter, the group it was handed
\* is sorted at every level by name without regard to case, sub-groups among the
\* files; it is the tree the saver's group now refers to, and it holds the files and
\* the sub-group registered while the exporter was prepared, and nothing but these
\* and the generated files that were in the group before the loop.
C16_SortedAtHandOff ==
    (pc \in {"exporters", "appConfig2"} /\ loopPos > 1) =>
      LET e == ExporterAt(loopPos - 1)
      IN handed[e].given =>
           /\ log[Len(log)] = <<"create", e>>
           /\ SortedRecursively(handed[e].children)
           /\ handed[e].node = generatedFilesGroup
           /\ nodes[generatedFilesGroup] = handed[e].children
           /\ ItemPaths(handed[e].children)
                = ItemPaths(IF handed[e].failed THEN nodes[originalGeneratedGroup]
                            ELSE PreparedGroup(nodes[originalGeneratedGroup], moduleCalls[e]))

C16_Witness ==
    /\ pc = "appConfig2"
    /\ numResources > 0
    /\ \E e \in Exporters :
         /\ handed[e].given
         /\ ItemNames(handed[e].children)
              = <<"AppConfig.h", "appwrapper.cpp", "AudioPlugin", "BinaryData.cpp",
                  "BinaryData.h", "JuceHeader.h">>
         /\ ItemNames(handed[e].children[3].children) = <<"au.mm", "VST.cpp">>

\* ------------------------------------------------------------------ C17
\* the configuration header on disk has line among its lines
HeaderHasLine(line) ==
    /\ FileExists(fs, <<AppConfigFilename>>)
    /\ \E k \in 1 .. Len(fs[<<AppConfigFilename>>].data) : fs[<<AppConfigFilename>>].data[k] = line

\* C17: the configuration header is first emitted before anything is done with an
\* exporter, and while the exporters are processed the header on disk is that
\* first emission, without what the exporters' preparation declares; the second
\* emission comes when every exporter has been processed and before the README is
\* written; when save() returns without an error both emissions have happened, the
\* header on disk holds what was declared during the loop, and no tree holds more
\* than one Item for the header.
C17_TwoPassConfigHeader ==
    /\ log # << >> => "appConfig1" \in ran
    /\ (pc = "exporters" /\ errors = << >>) =>
         fs[<<AppConfigFilename>>] = PlainFile(writeAppConfig(Modules, configFlags, EmptyString))
    /\ "appConfig2" \in ran =>
         /\ "appConfig1" \in ran
         /\ \A e \in Exporters : outcome[e] = "created"
    /\ ("readme" \in ran \/ ReadmeName \in written) => "appConfig2" \in ran
    /\ (pc = "done" /\ errors = << >>) =>
         /\ {"appConfig1", "appConfig2"} \subseteq ran
         /\ extraAppConfigContent = ExtraContentOf(projectTypeConfig)
         /\ fs[<<AppConfigFilename>>]
              = PlainFile(writeAppConfig(Modules, configFlags, extraAppConfigContent))
         /\ projectTypeConfig # EmptyString => HeaderHasLine(trimEnd(projectTypeConfig))
         /\ \A n \in 1 .. Len(nodes) : Count(ItemNames(nodes[n]), AppConfigFilename) = 1

C17_Witness ==
    /\ pc = "done"
    /\ errors = << >>
    /\ projectTypeConfig # EmptyString
    /\ trimEnd(projectTypeConfig) # projectTypeConfig
    /\ HeaderHasLine(trimEnd(projectTypeConfig))
    /\ {"appConfig1", "appConfig2", "readme"} \subseteq ran
    /\ Count(ItemNames(nodes[generatedFilesGroup]), AppConfigFilename) = 1

\* ------------------------------------------------------------------ C18
ReadmeError == <<"Can't write to file: ", ReadmeName>>

\* C18: once save() is past its README step, the README write was attempted exactly
\* if the generated-code folder exists and no error was recorded by the steps
\* before it; an attempt that succeeded left the README on disk, and one that
\* failed left exactly one error, the first and only one, so that save() returns it
\* and puts the project's file back; without an attempt there is no README on disk
\* and no error about it.
C18_ReadmeWhenClean ==
    /\ pc \in {"finish", "done"} =>
         /\ "readme" \in ran <=> (folderExists /\ errors \in {<< >>, <<ReadmeError>>})
         /\ ("readme" \in ran /\ errors = << >>) =>
              /\ ReadmeName \in written
              /\ fs[<<ReadmeName>>] = PlainFile(ReadmeText)
         /\ ("readme" \in ran /\ errors # << >>) =>
              /\ ReadmeName \notin written
              /\ <<ReadmeName>> \notin DOMAIN fs
              /\ pc = "done" => (result = ReadmeError /\ projectFileLocation = oldFile)
    /\ "readme" \notin ran =>
         /\ ReadmeName \notin written
         /\ Count(errors, ReadmeError) = 0
         /\ pc # "new" => <<ReadmeName>> \notin DOMAIN fs

C18_Witness ==
    /\ pc = "done"
    /\ "readme" \in ran
    /\ errors = <<ReadmeError>>
    /\ oldFile = OtherProjectFile
    /\ projectFileLocation = OtherProjectFile
    /\ AppConfigFilename \in written
    /\ \A e \in Exporters : outcome[e] = "created"

\* ------------------------------------------------------------------ C19
\* the saver as the module finds it in writeIncludes, whatever the disk does with
\* what the module writes
SaversAfterIncludes == {writeIncludes(Saver, writeIncludesCall, w) : w \in BOOLEAN}

\* the saver as the module finds it in prepareExporter: the group has just been reset
SaverInLoop ==
    LET h == ResetGeneratedGroup(nodes, generatedFilesGroup, originalGeneratedGroup)
    IN [Saver EXCEPT !.nodes = h.nodes, !.group = h.group]

\* the text writeAppHeader renders on saver s
HeaderTextOn(s) ==
    writeAppHeaderText(Modules,
                       appConfigFile # << >> /\ FileExists(s.fs, appConfigFile),
                       binaryDataCpp # << >> /\ FileExists(s.fs, binaryDataCpp))

\* the calls of saveGeneratedFile that are about to be made, by save() or by a
\* module: the saver each finds, the file and the text
CallsToSave ==
    IF pc \in {"appConfig1", "appConfig2"} /\ errors = << >>
    THEN {[s |-> Saver, file |-> AppConfigFilename,
           text |-> writeAppConfig(Modules, configFlags, extraAppConfigContent)]}
    ELSE IF pc = "appHeader" /\ errors = << >>
    THEN {[s |-> Saver, file |-> ModuleWrapperName, text |-> ModuleText] :
            x \in IF writeIncludesCall = "saveGeneratedFile" THEN {1} ELSE {}}
         \cup {[s |-> m, file |-> JuceSourceHFilename, text |-> HeaderTextOn(m)] :
                 m \in SaversAfterIncludes}
    ELSE IF pc = "exporters" /\ loopPos <= NumExporters
              /\ moduleCalls[ExporterAt(loopPos)] = "saveGeneratedFile"
    THEN {[s |-> SaverInLoop, file |-> ModuleWrapperName, text |-> ModuleText]}
    ELSE {}

\* C19: whenever save() or a module is about to call saveGeneratedFile, whatever the
\* file system then allows: if the folder is missing and cannot be created the call
\* adds the one error about the folder, returns an invalid Item and leaves the trees,
\* the folder and the files as they were; if the file has to be written and cannot
\* be, the call adds the one error about the file, returns an invalid Item and
\* leaves the trees and the files as they were; otherwise it adds no error, the
\* file is on disk with the new text, the Item returned is the group's Item for the
\* file, the group holds exactly one such Item, and the other trees and the rest of
\* the group are as they were.
C19_SaveGeneratedFileFrame ==
    \A c \in CallsToSave, canCreate \in BOOLEAN, canWrite \in BOOLEAN :
        LET s == c.s
            r == saveGeneratedFile(s, c.file, c.text, canCreate, canWrite)
            onDisk == FileExists(s.fs, <<c.file>>) /\ s.fs[<<c.file>>].data = c.text
        IN IF ~ s.folderExists /\ ~ canCreate
           THEN /\ r.errors = Append(s.errors, <<"Couldn't create folder: ", "JuceLibraryCode">>)
                /\ r.item = << >>
                /\ r.nodes = s.nodes /\ r.group = s.group
                /\ r.fs = s.fs /\ r.written = s.written /\ ~ r.folderExists
           ELSE IF ~ onDisk /\ ~ canWrite
           THEN /\ r.errors = Append(s.errors, <<"Can't write to file: ", c.file>>)
                /\ r.item = << >>
                /\ r.nodes = s.nodes /\ r.group = s.group
                /\ r.fs = s.fs /\ r.written = s.written
           ELSE /\ r.errors = s.errors
                /\ r.item = <<Leaf(c.file)>>
                /\ Count(r.nodes[r.group], Leaf(c.file)) = 1
                /\ Count(ItemNames(r.nodes[r.group]), c.file) = 1
                /\ r.group = s.group
                /\ \A n \in 1 .. Len(s.nodes) : n # r.group => r.nodes[n] = s.nodes[n]
                /\ Len(r.nodes) = Len(s.nodes)
                /\ r.nodes[r.group]
                     \in {s.nodes[r.group], Append(s.nodes[r.group], Leaf(c.file))}
                /\ r.fs = PutFile(s.fs, <<c.file>>, c.text)
                /\ r.folderExists

C19_Witness ==
    /\ pc = "projects"
    /\ errors = <<<<"Can't write to file: ", JuceSourceHFilename>>>>
    /\ ItemNames(nodes[generatedFilesGroup]) = <<AppConfigFilename>>
    /\ <<JuceSourceHFilename>> \notin DOMAIN fs
    /\ JuceSourceHFilename \notin written
    /\ "appHeader" \in ran
====
